---- MODULE Spec2Model ----
(***************************************************************************)
(* Rent ledger (src/rent_ledger.py): the store (bank, splits, rules,      *)
(* rule_parts), the rule matcher, the split allocator and batch rule      *)
(* application.                                                           *)
(*                                                                         *)
(* Representation.                                                        *)
(*  - A table with an AUTOINCREMENT id is a sequence; the row id is the    *)
(*    index.  No modelled command deletes from these tables.               *)
(*  - A nullable column holds <<>> (NULL) or <<v>>.                        *)
(*  - Text is a sequence of one-character strings.                         *)
(*  - value_percent (REAL) is held in hundredths of a percent, so 50.01    *)
(*    is 5001.  Float arithmetic on it is modelled by exact arithmetic;    *)
(*    the percentages used are chosen so that both agree.                  *)
(*  - `last` is what the most recent command returned or printed.          *)
(***************************************************************************)
EXTENDS Integers, Sequences, FiniteSets, TLC

VARIABLES bank, splits, rules, rule_parts, leases, manual_charges, fifo, last

vars == <<bank, splits, rules, rule_parts, leases, manual_charges, fifo, last>>

----------------------------------------------------------------------------
(* Bounds of the model *)

(* Rows of rule_parts a run of Spec adds, and a run of SpecAlloc *)
MaxParts == 2

MaxAllocParts == 3

(* Commands that write splits run while fewer than this many are stored *)
MaxSplits == 2

(* The same for a run of SpecRerun *)
MaxRerunSplits == 3

(* The same for a run of SpecSplits *)
MaxManualSplits == 3

(* Charges and payments handed to apply_payments_fifo in SpecFifo *)
MaxCharges == 3

MaxPayments == 2

(* Manual charges and splits in a run of SpecAging *)
MaxManualCharges == 2

MaxAgingSplits == 2

(* Days overdue range from -MaxDaysOverdue to MaxDaysOverdue in SpecBucket *)
MaxDaysOverdue == 95

(* Ids of the bank rows and of the rules a run creates and names *)
BankIdInputs == {1, 2}

RuleIdInputs == {1, 2}

----------------------------------------------------------------------------
(* Generic helpers *)

NULL == <<>>

Some(v) == <<v>>

IsNull(x) == x = <<>>

Val(x) == x[1]

Abs(n) == IF n < 0 THEN -n ELSE n

Sgn(n) == IF n > 0 THEN 1 ELSE IF n < 0 THEN -1 ELSE 0

RECURSIVE SumSeq(_)
SumSeq(s) == IF s = <<>> THEN 0 ELSE Head(s) + SumSeq(Tail(s))

Amounts(s) == [i \in 1..Len(s) |-> s[i].amount_cents]

----------------------------------------------------------------------------
(* Text helpers used by match_rule *)

RECURSIVE LStrip(_, _)
LStrip(s, ch) == IF s # <<>> /\ Head(s) \in ch THEN LStrip(Tail(s), ch) ELSE s

RECURSIVE RStrip(_, _)
RStrip(s, ch) ==
    IF s # <<>> /\ s[Len(s)] \in ch THEN RStrip(SubSeq(s, 1, Len(s) - 1), ch) ELSE s

Strip(s, ch) == RStrip(LStrip(s, ch), ch)

Contains(needle, hay) ==
    \E i \in 0..(Len(hay) - Len(needle)) :
        SubSeq(hay, i + 1, i + Len(needle)) = needle

Lower(s) == [i \in 1..Len(s) |-> IF s[i] = "A" THEN "a" ELSE IF s[i] = "B" THEN "b" ELSE s[i]]

(* re.search(regex, desc, IGNORECASE) for the regexes of the model: a      *)
(* literal pattern, or a malformed one (re.error).                         *)
RegexSearch(regex, desc) ==
    IF ~regex.valid THEN "error"
    ELSE IF Contains(Lower(regex.lit), Lower(desc)) THEN "found" ELSE "none"

----------------------------------------------------------------------------
(* Rules *)

(* Fault: an amount of 0 counts as incoming *)
sign_of_ZeroIncoming(cents) == IF cents >= 0 THEN "in" ELSE "out"

sign_of(cents) == IF cents > 0 THEN "in" ELSE IF cents < 0 THEN "out" ELSE "any"

LikeOk(like, b_desc) ==
    IF IsNull(like) \/ Val(like) = <<>> THEN TRUE
    ELSE LET like_str == Strip(Val(like), {" "})
         IN  IF like_str = <<>> THEN TRUE
             ELSE Contains(Strip(like_str, {"%"}), b_desc)

RegexOk(regex, b_desc) ==
    IF IsNull(regex) \/ (Val(regex).valid /\ Val(regex).lit = <<>>) THEN TRUE
    ELSE RegexSearch(Val(regex), b_desc) = "found"

match_rule(rule, bank_row) ==
    IF rule.active = 0 THEN FALSE
    ELSE IF ~LikeOk(rule.like, bank_row.description) THEN FALSE
    ELSE IF ~RegexOk(rule.regex, bank_row.description) THEN FALSE
    ELSE IF ~IsNull(rule.min_c) /\ bank_row.amount_cents < Val(rule.min_c) THEN FALSE
    ELSE IF ~IsNull(rule.max_c) /\ bank_row.amount_cents > Val(rule.max_c) THEN FALSE
    ELSE IF rule.sign # "any" /\ sign_of(bank_row.amount_cents) # rule.sign THEN FALSE
    ELSE TRUE

----------------------------------------------------------------------------
(* Split allocator: apply_rule_to_bank *)

PartsOf(rule_id) == SelectSeq(rule_parts, LAMBDA p : p.rule_id = rule_id)

OfKind(parts, kind) == SelectSeq(parts, LAMBDA p : p.kind = kind)

(* Index of the first part without its value, 0 when every part has one *)
FirstNull(parts, field) ==
    LET nulls == {i \in 1..Len(parts) : IsNull(parts[i][field])}
    IN  IF nulls = {} THEN 0 ELSE CHOOSE i \in nulls : \A j \in nulls : i <= j

(* Fault: the stored sign kept *)
FixedAmt_StoredSign(bank_amt, val_c) == val_c

FixedAmt(bank_amt, val_c) ==
    IF (bank_amt > 0 /\ val_c < 0) \/ (bank_amt < 0 /\ val_c > 0) THEN -val_c ELSE val_c

(* round(): the nearest integer to num/den (den > 0), an exact half going  *)
(* to the even neighbour                                                   *)
RoundHalfEven(num, den) ==
    LET q == num \div den
        r == num % den
    IN  IF 2 * r < den THEN q
        ELSE IF 2 * r > den THEN q + 1
        ELSE IF q % 2 = 0 THEN q ELSE q + 1

(* bank_amt * pct / 100.0 is computed in IEEE-754 doubles.  Where the      *)
(* exact quotient lies halfway between two integers the double is that     *)
(* half (0), or the double just above it (1) or just below it (-1).  The   *)
(* amounts and percentages of the model give a double off the half for     *)
(* 1.25 at 64.4 % (80.50000000000001) and for 2.50 at 64.6 %               *)
(* (161.49999999999997), and the mirror images for the negative amounts.   *)
DoubleSide(bank_amt, pct) ==
    IF Abs(bank_amt) = 125 /\ pct = 6440 THEN Sgn(bank_amt)
    ELSE IF Abs(bank_amt) = 250 /\ pct = 6460 THEN -Sgn(bank_amt)
    ELSE 0

(* int(round(bank_amt * pct / 100.0)), pct in hundredths of a percent:     *)
(* round() sees the double, so it rounds half to even only where the       *)
(* double is the half itself                                               *)
PercentCents(bank_amt, pct) ==
    LET halfway == (bank_amt * pct) % 10000 = 5000
        below == (bank_amt * pct) \div 10000
    IN  IF halfway /\ DoubleSide(bank_amt, pct) > 0 THEN below + 1
        ELSE IF halfway /\ DoubleSide(bank_amt, pct) < 0 THEN below
        ELSE RoundHalfEven(bank_amt * pct, 10000)

(* Fault: a tolerance of one percent instead of 0.000001 *)
PercentOverflow_Loose(percent_sum) == percent_sum > 10100

(* percent_sum > 100.000001, percent_sum in hundredths of a percent *)
PercentOverflow(percent_sum) == percent_sum * 10000 > 100000001

(* Fault: off by one *)
MultipleRemainder_OffByOne(n) == n > 2

(* Fault: a single remainder part is rejected too *)
MultipleRemainder_AnyRemainder(n) == n > 0

MultipleRemainder(n) == n > 1

(* Faults seeded into the balance check: dropped, and made approximate *)
BalanceOk_Dropped(total, bank_amt) == TRUE

BalanceOk_Approx(total, bank_amt) == Abs(total - bank_amt) <= 1

BalanceOk(total, bank_amt) == total = bank_amt

(* note_t or "Auto: Regel <name>"; the rule's name is modelled by its id *)
Note(p, rule_id) ==
    IF p.note_template = "" THEN [text |-> "Auto: Regel", rule |-> rule_id]
    ELSE [text |-> p.note_template, rule |-> 0]

MkSplit(bank_id, p, amt, rule_id) ==
    [bank_id |-> bank_id, account |-> p.account, tenant_id |-> p.tenant_id,
     amount_cents |-> amt, note |-> Note(p, rule_id)]

Result(ok, msg, to_insert) == [ok |-> ok, msg |-> msg, splits_to_insert |-> to_insert]

(* The returned (ok, msg) and the local list splits_to_insert as it stands *)
(* at the return.                                                          *)
apply_rule_to_bank(rule_id, bank_id) ==
    IF bank_id \notin 1..Len(bank) THEN Result(FALSE, "bank_not_found", <<>>)
    ELSE IF rule_id \notin 1..Len(rules) THEN Result(FALSE, "rule_not_found", <<>>)
    ELSE IF ~match_rule(rules[rule_id], bank[bank_id]) THEN Result(FALSE, "no_match", <<>>)
    ELSE
    LET parts == PartsOf(rule_id)
        bank_amt == bank[bank_id].amount_cents
        fixed == OfKind(parts, "fixed")
        fnull == FirstNull(fixed, "value_cents")
        nfix == IF fnull = 0 THEN Len(fixed) ELSE fnull - 1
        fixed_splits == [i \in 1..nfix |->
            MkSplit(bank_id, fixed[i], FixedAmt(bank_amt, Val(fixed[i].value_cents)), rule_id)]
        percent_parts == OfKind(parts, "percent")
        percent_sum == SumSeq([i \in 1..Len(percent_parts) |-> Val(percent_parts[i].value_percent)])
        percent_splits == [i \in 1..Len(percent_parts) |->
            MkSplit(bank_id, percent_parts[i],
                    PercentCents(bank_amt, Val(percent_parts[i].value_percent)), rule_id)]
        remainder_parts == OfKind(parts, "remainder")
        remaining == bank_amt - SumSeq(Amounts(fixed_splits)) - SumSeq(Amounts(percent_splits))
        remainder_splits ==
            IF Len(remainder_parts) = 1
            THEN <<MkSplit(bank_id, remainder_parts[1], remaining, rule_id)>>
            ELSE <<>>
        all == fixed_splits \o percent_splits \o remainder_splits
    IN  IF parts = <<>> THEN Result(FALSE, "no_parts", <<>>)
        ELSE IF fnull # 0 THEN Result(FALSE, "fixed_no_value", fixed_splits)
        ELSE IF FirstNull(percent_parts, "value_percent") # 0
             THEN Result(FALSE, "percent_no_value", fixed_splits)
        ELSE IF PercentOverflow(percent_sum) THEN Result(FALSE, "percent_overflow", fixed_splits)
        ELSE IF MultipleRemainder(Len(remainder_parts))
             THEN Result(FALSE, "multiple_remainder", fixed_splits \o percent_splits)
        ELSE IF ~BalanceOk(SumSeq(Amounts(all)), bank_amt)
             THEN Result(FALSE, "balance_mismatch", all)
        ELSE Result(TRUE, "ok", all)

(* Fault: each split inserted as soon as it is computed *)
InsertSplits_AsComputed(sp, res) == sp \o res.splits_to_insert

(* The INSERT loop is reached on success only *)
(* Fault: the new splits take the place of the stored ones *)
InsertSplits_Replacing(sp, res) == IF res.ok THEN res.splits_to_insert ELSE sp

InsertSplits(sp, res) == IF res.ok THEN sp \o res.splits_to_insert ELSE sp

----------------------------------------------------------------------------
(* Batch rule application: cmd_apply_rules *)

SplitsOf(sp, bank_id) == SelectSeq(sp, LAMBDA x : x.bank_id = bank_id)

(* v_bank_with_sum.split_sum *)
split_sum(sp, bank_id) == SumSeq(Amounts(SplitsOf(sp, bank_id)))

(* Fault: ORDER BY id *)
ByPriorityThenId_IdOnly(i, j) == i < j

(* ORDER BY priority, id *)
ByPriorityThenId(i, j) ==
    \/ rules[i].priority < rules[j].priority
    \/ rules[i].priority = rules[j].priority /\ i < j

RECURSIVE SortRules(_)
SortRules(ids) ==
    IF ids = {} THEN <<>>
    ELSE LET m == CHOOSE i \in ids : \A j \in ids \ {i} : ByPriorityThenId(i, j)
         IN  <<m>> \o SortRules(ids \ {m})

(* SELECT ... FROM rules WHERE active=1 ORDER BY priority, id *)
ActiveRules == SortRules({i \in 1..Len(rules) : rules[i].active = 1})

BankIds == [i \in 1..Len(bank) |-> i]

(* The three selections of bank rows (each ORDER BY id), by the command's  *)
(* arguments; args.bank_id = 0 stands for an absent or zero --bank-id      *)
BankRows(args) ==
    IF args.bank_id # 0
    THEN SelectSeq(BankIds, LAMBDA i : i = args.bank_id)
    ELSE IF args.only_unbalanced
    THEN SelectSeq(BankIds, LAMBDA i : split_sum(splits, i) - bank[i].amount_cents # 0)
    ELSE BankIds

(* Fault: the balance test never skips *)
AlreadyBalanced_Never(sum, amount) == FALSE

(* if v and v[0] == b[2]: continue *)
AlreadyBalanced(sum, amount) == sum = amount

(* Fault: break after the first attempt, whatever its outcome *)
StopAfter_AnyOutcome(ok) == TRUE

(* ok: count the row and break;  otherwise go on with the next rule *)
StopAfter(ok) == ok

Attempt(bank_id, rule_id, res) ==
    [bank_id |-> bank_id, rule_id |-> rule_id, ok |-> res.ok, msg |-> res.msg]

(* for r in rules: ...  for one bank row; acc = [splits, applied, log, skipped] *)
RECURSIVE TryRules(_, _, _)
TryRules(rs, bank_id, acc) ==
    IF rs = <<>> THEN acc
    ELSE IF ~match_rule(rules[Head(rs)], bank[bank_id]) THEN TryRules(Tail(rs), bank_id, acc)
    ELSE LET res == apply_rule_to_bank(Head(rs), bank_id)
             acc2 == [acc EXCEPT !.splits = InsertSplits(@, res),
                                 !.applied = IF res.ok THEN @ + 1 ELSE @,
                                 !.log = Append(@, Attempt(bank_id, Head(rs), res))]
         IN  IF StopAfter(res.ok) THEN acc2 ELSE TryRules(Tail(rs), bank_id, acc2)

(* for b in bank_rows: ... *)
RECURSIVE BatchLoop(_, _, _)
BatchLoop(rows, rs, acc) ==
    IF rows = <<>> THEN acc
    ELSE IF AlreadyBalanced(split_sum(acc.splits, Head(rows)), bank[Head(rows)].amount_cents)
         THEN BatchLoop(Tail(rows), rs, [acc EXCEPT !.skipped = Append(@, Head(rows))])
    ELSE BatchLoop(Tail(rows), rs, TryRules(rs, Head(rows), acc))

apply_rules(args) ==
    BatchLoop(BankRows(args), ActiveRules,
              [splits |-> splits, applied |-> 0, log |-> <<>>, skipped |-> <<>>])

----------------------------------------------------------------------------------------------------------------------------------------
(* Inputs of the commands *)

(* ensure_db's default accounts that the model's commands name *)
accounts == {"3000", "3010", "3020"}

AccountInputs == {"3000", "9999"}

AmountInputs == {-2, 1}

AllocAmountInputs == {-2, 0, 1}

DescInputs == {<<"a">>}

(* Dates are <<year, month, day>> *)
ImportDateInputs == {<<2025, 7, 5>>}

(* The tenants of cmd_example_demo *)
tenants == {"M001", "M002"}

(* ACCOUNT AMOUNT TENANT_ID of add-split; "-" names no tenant *)
Triple(account, amount_cents, tenant_id) ==
    [account |-> account, amount_cents |-> amount_cents, tenant_id |-> tenant_id]

(* No aging computation under way *)
Idle == [pc |-> "idle"]

SplitAmountInputs == {1}

Rule(like, regex, min_c, max_c, sign, priority, active) ==
    [like |-> like, regex |-> regex, min_c |-> min_c, max_c |-> max_c,
     sign |-> sign, priority |-> priority, active |-> active]

RuleInputs ==
    { Rule(NULL, NULL, NULL, NULL, "any", 2, 1),
      Rule(NULL, NULL, NULL, NULL, "in", 1, 1),
      Rule(NULL, NULL, NULL, NULL, "any", 1, 0) }

(* --value-cents arrives as text: absent, empty, or a number *)
Absent == [tag |-> "absent", n |-> 0]

EmptyText == [tag |-> "empty", n |-> 0]

Num(n) == [tag |-> "int", n |-> n]

PartArgs(kind, value_cents, value_percent) ==
    [kind |-> kind, value_cents |-> value_cents, value_percent |-> value_percent]

PartInputs ==
    { PartArgs("fixed", Num(2), NULL),
      PartArgs("fixed", Absent, NULL),
      PartArgs("remainder", Absent, NULL) }

(* 50 % and 50.01 % *)
AllocPartInputs ==
    { PartArgs("fixed", Num(2), NULL),
      PartArgs("fixed", Num(-1), NULL),
      PartArgs("fixed", EmptyText, NULL),
      PartArgs("fixed", Absent, NULL),
      PartArgs("percent", Absent, Some(5000)),
      PartArgs("percent", Absent, Some(5001)),
      PartArgs("percent", Absent, NULL),
      PartArgs("remainder", Absent, NULL) }

(* --only-unbalanced is read only without --bank-id *)
ApplyArgs ==
    [bank_id : BankIdInputs, only_unbalanced : {FALSE}]
        \cup [bank_id : {0}, only_unbalanced : BOOLEAN]

----------------------------------------------------------------------------
(* What the last command reported *)

NoLog == [applied |-> 0, log |-> <<>>, skipped |-> <<>>, rows |-> <<>>]

Out(op, rule_id, bank_id, only_unbalanced, ok, msg, batch) ==
    [op |-> op, rule_id |-> rule_id, bank_id |-> bank_id,
     only_unbalanced |-> only_unbalanced, ok |-> ok, msg |-> msg,
     applied |-> batch.applied, log |-> batch.log, skipped |-> batch.skipped,
     rows |-> batch.rows]

Plain(op, ok) == Out(op, 0, 0, FALSE, ok, "", NoLog)

----------------------------------------------------------------------------
(* Commands *)

(* One data row of the CSV *)
cmd_import_bank(op_date, amt, desc) ==
    /\ bank' = Append(bank, [op_date |-> op_date, amount_cents |-> amt, description |-> desc])
    /\ last' = Plain("import_bank", TRUE)
    /\ UNCHANGED <<splits, rules, rule_parts, leases, manual_charges, fifo>>

(* if tenant_id == "-" or tenant_id == "": tenant_id = None *)
StoredTenant(tenant_id) == IF tenant_id \in {"-", ""} THEN NULL ELSE Some(tenant_id)

(* The triples in order; an unknown account or tenant ends the command by  *)
(* `return` inside the `with` block, which commits what was inserted       *)
(* before it.                                                              *)
RECURSIVE AddTriples(_, _, _)
AddTriples(sp, bank_id, triples) ==
    IF triples = <<>> THEN sp
    ELSE IF Head(triples).account \notin accounts THEN sp
    ELSE IF Head(triples).tenant_id \notin tenants \cup {"-", ""} THEN sp
    ELSE AddTriples(Append(sp, [bank_id |-> bank_id, account |-> Head(triples).account,
                                tenant_id |-> StoredTenant(Head(triples).tenant_id),
                                amount_cents |-> Head(triples).amount_cents,
                                note |-> [text |-> "", rule |-> 0]]),
                    bank_id, Tail(triples))

(* What the command prints first: the lookup that ended it, or the summary *)
RECURSIVE AddSplitMsg(_)
AddSplitMsg(triples) ==
    IF triples = <<>> THEN "ok"
    ELSE IF Head(triples).account \notin accounts THEN "unknown_account"
    ELSE IF Head(triples).tenant_id \notin tenants \cup {"-", ""} THEN "unknown_tenant"
    ELSE AddSplitMsg(Tail(triples))

cmd_add_split(bank_id, triples) ==
    /\ splits' = IF bank_id \in 1..Len(bank) THEN AddTriples(splits, bank_id, triples) ELSE splits
    /\ last' = LET msg == IF bank_id \in 1..Len(bank) THEN AddSplitMsg(triples)
                          ELSE "bank_not_found"
               IN  Out("add_split", 0, bank_id, FALSE, msg = "ok", msg, NoLog)
    /\ UNCHANGED <<bank, rules, rule_parts, leases, manual_charges, fifo>>

cmd_add_rule(r) ==
    /\ rules' = Append(rules, r)
    /\ last' = Plain("add_rule", TRUE)
    /\ UNCHANGED <<bank, splits, rule_parts, leases, manual_charges, fifo>>

(* vc = int(args.value_cents) if args.value_cents else None *)
StoredCents(value_cents) == IF value_cents.tag = "int" THEN Some(value_cents.n) ELSE NULL

(* The two argument checks, the account lookup, and the foreign key on     *)
(* rule_id                                                                 *)
PartAccepted(rule_id, account, a) ==
    /\ ~(a.kind = "fixed" /\ a.value_cents.tag = "absent")
    /\ ~(a.kind = "percent" /\ IsNull(a.value_percent))
    /\ account \in accounts
    /\ rule_id \in 1..Len(rules)

cmd_add_rule_part(rule_id, account, a) ==
    /\ rule_parts' =
          IF PartAccepted(rule_id, account, a)
          THEN Append(rule_parts,
                      [rule_id |-> rule_id, account |-> account, tenant_id |-> NULL,
                       kind |-> a.kind,
                       value_cents |-> StoredCents(a.value_cents),
                       value_percent |-> a.value_percent, note_template |-> ""])
          ELSE rule_parts
    /\ last' = Plain("add_rule_part", PartAccepted(rule_id, account, a))
    /\ UNCHANGED <<bank, splits, rules, leases, manual_charges, fifo>>

cmd_test_rule(rule_id, bank_id) ==
    LET res == apply_rule_to_bank(rule_id, bank_id)
    IN  /\ splits' = InsertSplits(splits, res)
        /\ last' = Out("test_rule", rule_id, bank_id, FALSE, res.ok, res.msg, NoLog)
        /\ UNCHANGED <<bank, rules, rule_parts, leases, manual_charges, fifo>>

cmd_apply_rules(args) ==
    LET acc == apply_rules(args)
    IN  /\ splits' = acc.splits
        /\ last' = Out("apply_rules", 0, args.bank_id, args.only_unbalanced, TRUE, "",
                       [applied |-> acc.applied, log |-> acc.log,
                        skipped |-> acc.skipped, rows |-> BankRows(args)])
        /\ UNCHANGED <<bank, rules, rule_parts, leases, manual_charges, fifo>>

----------------------------------------------------------------------------
(* Spec: the store built up from empty by the commands *)

Init ==
    /\ bank = <<>>
    /\ splits = <<>>
    /\ rules = <<>>
    /\ rule_parts = <<>>
    /\ leases = {}
    /\ manual_charges = <<>>
    /\ fifo = Idle
    /\ last = Plain("init", TRUE)

ImportBank ==
    /\ Len(bank) + 1 \in BankIdInputs
    /\ \E d \in ImportDateInputs, amt \in AmountInputs, desc \in DescInputs :
          cmd_import_bank(d, amt, desc)

AddSplit ==
    /\ Len(splits) < MaxSplits
    /\ \E b \in BankIdInputs, acct \in AccountInputs, amt \in SplitAmountInputs :
          cmd_add_split(b, <<Triple(acct, amt, "-")>>)

AddRule ==
    /\ Len(rules) + 1 \in RuleIdInputs
    /\ \E r \in RuleInputs : cmd_add_rule(r)

AddRulePart ==
    /\ Len(rule_parts) < MaxParts
    /\ \E rid \in RuleIdInputs, a \in PartInputs : cmd_add_rule_part(rid, "3000", a)

TestRule ==
    /\ Len(splits) < MaxSplits
    /\ \E rid \in RuleIdInputs, b \in BankIdInputs : cmd_test_rule(rid, b)

ApplyRules ==
    /\ Len(splits) < MaxSplits
    /\ \E args \in ApplyArgs : cmd_apply_rules(args)

Next == ImportBank \/ AddSplit \/ AddRule \/ AddRulePart \/ TestRule \/ ApplyRules

Spec == Init /\ [][Next]_vars

----------------------------------------------------------------------------
(* SpecAlloc: one bank row and one rule, the rule's parts added one by one *)
(* and the rule tested against the row                                     *)

InitAlloc ==
    /\ \E d \in ImportDateInputs, amt \in AllocAmountInputs, desc \in DescInputs :
          bank = <<[op_date |-> d, amount_cents |-> amt, description |-> desc]>>
    /\ rules \in {<<r>> : r \in RuleInputs}
    /\ splits = <<>>
    /\ rule_parts = <<>>
    /\ leases = {}
    /\ manual_charges = <<>>
    /\ fifo = Idle
    /\ last = Plain("init", TRUE)

AllocAddRulePart ==
    /\ Len(rule_parts) < MaxAllocParts
    /\ \E rid \in RuleIdInputs, acct \in AccountInputs, a \in AllocPartInputs :
          cmd_add_rule_part(rid, acct, a)

NextAlloc == AllocAddRulePart \/ AddSplit \/ TestRule

SpecAlloc == InitAlloc /\ [][NextAlloc]_vars

----------------------------------------------------------------------------
(* SpecRerun: one bank row and one rule, manual splits and batch runs *)

RerunAddRulePart ==
    /\ Len(rule_parts) < MaxParts
    /\ \E a \in PartInputs : cmd_add_rule_part(1, "3000", a)

RerunAddSplit ==
    /\ Len(splits) < MaxRerunSplits
    /\ \E amt \in SplitAmountInputs :
          cmd_add_split(1, <<Triple("3000", amt, "-")>>)

RerunApplyRules ==
    /\ Len(splits) < MaxRerunSplits
    /\ \E args \in ApplyArgs : cmd_apply_rules(args)

NextRerun == RerunAddRulePart \/ RerunAddSplit \/ RerunApplyRules

SpecRerun == InitAlloc /\ [][NextRerun]_vars

----------------------------------------------------------------------------
(* SpecSplits: one bank row, add-split with one or two triples *)

TenantInputs == {"-", "M001", "M999"}

TripleInputs ==
    {Triple(acct, amt, t) : acct \in AccountInputs, amt \in SplitAmountInputs, t \in TenantInputs}

TriplesInputs == {<<x>> : x \in TripleInputs} \cup {<<x, y>> : x, y \in TripleInputs}

SplitsAddSplit ==
    /\ Len(splits) < MaxManualSplits
    /\ \E b \in BankIdInputs, ts \in TriplesInputs : cmd_add_split(b, ts)

NextSplits == SplitsAddSplit

SpecSplits == InitAlloc /\ [][NextSplits]_vars

----------------------------------------------------------------------------
(* Dates: <<year, month, day>>, compared as date objects and as ISO text *)

DateLt(a, b) ==
    \/ a[1] < b[1]
    \/ a[1] = b[1] /\ a[2] < b[2]
    \/ a[1] = b[1] /\ a[2] = b[2] /\ a[3] < b[3]

DateLeq(a, b) == a = b \/ DateLt(a, b)

(* calendar.monthrange(y, m)[1] *)
LastDayOfMonth(y, m) ==
    IF m \in {4, 6, 9, 11} THEN 30
    ELSE IF m # 2 THEN 31
    ELSE IF y % 4 = 0 /\ (y % 100 # 0 \/ y % 400 = 0) THEN 29 ELSE 28

(* month_bounds: the first and the last day of a month <<year, month>> *)
month_bounds(yyyymm) ==
    <<(<<yyyymm[1], yyyymm[2], 1>>),
      (<<yyyymm[1], yyyymm[2], LastDayOfMonth(yyyymm[1], yyyymm[2])>>)>>

RECURSIVE DaysBeforeMonth(_, _)
DaysBeforeMonth(y, m) == IF m = 1 THEN 0 ELSE DaysBeforeMonth(y, m - 1) + LastDayOfMonth(y, m - 1)

(* date.toordinal() *)
toordinal(d) ==
    LET y == d[1] - 1
    IN  y * 365 + (y \div 4) - (y \div 100) + (y \div 400) + DaysBeforeMonth(d[1], d[2]) + d[3]

----------------------------------------------------------------------------
(* Charges and their allocation: apply_payments_fifo *)

(* class Charge: open_cents starts as amount_cents *)
Charge(tenant_id, kind, due_date, amount_cents) ==
    [tenant_id |-> tenant_id, kind |-> kind, due_date |-> due_date,
     amount_cents |-> amount_cents, open_cents |-> amount_cents]

(* Fault: the due date is not tested *)
Eligible_AnyDue(c, asof) == c.open_cents > 0

(* Fault: the open amount is not tested *)
Eligible_CreditsToo(c, asof) == DateLeq(c.due_date, asof)

(* c.due_date <= asof and c.open_cents > 0 *)
Eligible(c, asof) == DateLeq(c.due_date, asof) /\ c.open_cents > 0

(* Fault: every mode sorts by due date alone *)
sort_key_DueOnly(c, priority) == <<c.due_date>>

sort_key(c, priority) ==
    IF priority = "rent_first"
    THEN <<IF c.kind = "rent" THEN 0 ELSE IF c.kind = "nk" THEN 1 ELSE 2, c.due_date>>
    ELSE IF priority = "nk_first"
    THEN <<IF c.kind = "nk" THEN 0 ELSE IF c.kind = "rent" THEN 1 ELSE 2, c.due_date>>
    ELSE IF priority = "nka_first"
    THEN <<IF c.kind = "nka" THEN 0 ELSE IF c.kind = "rent" THEN 1 ELSE 2, c.due_date>>
    ELSE <<c.due_date>>

(* Tuple comparison of two keys of one mode *)
KeyLt(k1, k2) ==
    IF Len(k1) = 1 THEN DateLt(k1[1], k2[1])
    ELSE k1[1] < k2[1] \/ (k1[1] = k2[1] /\ DateLt(k1[2], k2[2]))

(* list.sort(key=sort_key): stable, charges of equal key keep their order *)
RECURSIVE InsertByKey(_, _, _)
InsertByKey(sorted, x, priority) ==
    IF sorted = <<>> THEN <<x>>
    ELSE IF KeyLt(sort_key(x, priority), sort_key(Head(sorted), priority))
         THEN <<x>> \o sorted
         ELSE <<Head(sorted)>> \o InsertByKey(Tail(sorted), x, priority)

RECURSIVE SortCharges(_, _)
SortCharges(cs, priority) ==
    IF cs = <<>> THEN <<>>
    ELSE InsertByKey(SortCharges(SubSeq(cs, 1, Len(cs) - 1), priority), cs[Len(cs)], priority)

(* Fault: payments of every date are kept *)
PaymentsUpTo_AnyDate(payments, asof) == payments

(* Fault: only the first payment up to the key date is kept *)
PaymentsUpTo_FirstOnly(payments, asof) ==
    LET ps == SelectSeq(payments, LAMBDA p : DateLeq(p.date, asof))
    IN  IF ps = <<>> THEN <<>> ELSE <<ps[1]>>

(* [(d, amt) for (d, amt) in payments if d <= asof] *)
PaymentsUpTo(payments, asof) == SelectSeq(payments, LAMBDA p : DateLeq(p.date, asof))

Min(a, b) == IF a <= b THEN a ELSE b

(* Fault: the whole of the payment is taken from the charge *)
Take_Remaining(open_cents, remaining) == remaining

(* Fault: at most one cent is taken from a charge *)
Take_OneCent(open_cents, remaining) == Min(Min(open_cents, remaining), 1)

(* Fault: a charge reached by a payment is closed whatever is left of it *)
Take_AllOpen(open_cents, remaining) == open_cents

(* take = min(c.open_cents, remaining) *)
Take(open_cents, remaining) == Min(open_cents, remaining)

(* The inner loop from charge c on, for one payment *)
RECURSIVE WalkCharges(_, _, _)
WalkCharges(charges, c, remaining) ==
    IF c > Len(charges) \/ remaining <= 0 THEN charges
    ELSE IF charges[c].open_cents <= 0 THEN WalkCharges(charges, c + 1, remaining)
    ELSE LET take == Take(charges[c].open_cents, remaining)
         IN  WalkCharges([charges EXCEPT ![c].open_cents = @ - take], c + 1, remaining - take)

(* The outer loop over the payments *)
RECURSIVE PayAll(_, _)
PayAll(charges, payments) ==
    IF payments = <<>> THEN charges
    ELSE PayAll(WalkCharges(charges, 1, Head(payments).amount_cents), Tail(payments))

(* The function as a whole: the list it returns *)
apply_payments_fifo(charges, payments, asof, priority) ==
    PayAll(SortCharges(SelectSeq(charges, LAMBDA c : Eligible(c, asof)), priority),
           PaymentsUpTo(payments, asof))

(* The call: its arguments, before the first line of the body *)
FifoCall(charges, payments, asof, priority) ==
    [pc |-> "call", input |-> charges, paid |-> payments, asof |-> asof, priority |-> priority,
     charges |-> charges, payments |-> payments, p |-> 0, c |-> 0, remaining |-> 0, take |-> 0]

(* Lines 689-702: filter and sort the charges, filter the payments *)
FifoPrepare ==
    /\ fifo.pc = "call"
    /\ fifo' = [fifo EXCEPT
          !.pc = "pay",
          !.charges = SortCharges(SelectSeq(fifo.input, LAMBDA c : Eligible(c, fifo.asof)),
                                  fifo.priority),
          !.payments = PaymentsUpTo(fifo.paid, fifo.asof),
          !.p = 1]
    /\ UNCHANGED <<bank, splits, rules, rule_parts, leases, manual_charges, last>>

(* for _, amt in payments: remaining = amt *)
FifoNextPayment ==
    /\ fifo.pc = "pay" /\ fifo.p <= Len(fifo.payments)
    /\ fifo' = [fifo EXCEPT !.pc = "walk", !.remaining = fifo.payments[fifo.p].amount_cents,
                            !.c = 1, !.take = 0]
    /\ UNCHANGED <<bank, splits, rules, rule_parts, leases, manual_charges, last>>

(* return charges *)
FifoReturn ==
    /\ fifo.pc = "pay" /\ fifo.p > Len(fifo.payments)
    /\ fifo' = [fifo EXCEPT !.pc = "done"]
    /\ UNCHANGED <<bank, splits, rules, rule_parts, leases, manual_charges, last>>

(* for c in charges: exhausted *)
FifoEndWalk ==
    /\ fifo.pc = "walk" /\ fifo.c > Len(fifo.charges)
    /\ fifo' = [fifo EXCEPT !.pc = "pay", !.p = fifo.p + 1, !.take = 0]
    /\ UNCHANGED <<bank, splits, rules, rule_parts, leases, manual_charges, last>>

(* if remaining <= 0: break *)
FifoBreak ==
    /\ fifo.pc = "walk" /\ fifo.c <= Len(fifo.charges)
    /\ fifo.remaining <= 0
    /\ fifo' = [fifo EXCEPT !.pc = "pay", !.p = fifo.p + 1, !.take = 0]
    /\ UNCHANGED <<bank, splits, rules, rule_parts, leases, manual_charges, last>>

(* if c.open_cents <= 0: continue *)
FifoContinue ==
    /\ fifo.pc = "walk" /\ fifo.c <= Len(fifo.charges)
    /\ fifo.remaining > 0
    /\ fifo.charges[fifo.c].open_cents <= 0
    /\ fifo' = [fifo EXCEPT !.c = fifo.c + 1, !.take = 0]
    /\ UNCHANGED <<bank, splits, rules, rule_parts, leases, manual_charges, last>>

(* take = min(...); c.open_cents -= take; remaining -= take *)
FifoTake ==
    /\ fifo.pc = "walk" /\ fifo.c <= Len(fifo.charges)
    /\ fifo.remaining > 0
    /\ fifo.charges[fifo.c].open_cents > 0
    /\ LET take == Take(fifo.charges[fifo.c].open_cents, fifo.remaining)
       IN  fifo' = [fifo EXCEPT
              !.charges[fifo.c].open_cents = @ - take,
              !.remaining = @ - take,
              !.take = take,
              !.c = fifo.c + 1]
    /\ UNCHANGED <<bank, splits, rules, rule_parts, leases, manual_charges, last>>

----------------------------------------------------------------------------
(* Leases and the charges of a month.  leases is a set of rows with the    *)
(* primary key (tenant_id, since_date).                                    *)

(* ON CONFLICT(tenant_id, since_date) DO UPDATE *)
cmd_add_lease(l) ==
    /\ leases' = {x \in leases : ~(x.tenant_id = l.tenant_id /\ x.since_date = l.since_date)}
                    \cup {l}
    /\ last' = Plain("add_lease", TRUE)
    /\ UNCHANGED <<bank, splits, rules, rule_parts, manual_charges, fifo>>

(* ORDER BY on the text of a tenant id *)
TenantLt(t1, t2) == t1 = "M001" /\ t2 = "M002"

(* ORDER BY tenant_id, since_date *)
LeaseLt(l1, l2) ==
    \/ TenantLt(l1.tenant_id, l2.tenant_id)
    \/ l1.tenant_id = l2.tenant_id /\ DateLt(l1.since_date, l2.since_date)

RECURSIVE SortLeases(_)
SortLeases(ls) ==
    IF ls = {} THEN <<>>
    ELSE LET first == CHOOSE l \in ls : \A x \in ls \ {l} : LeaseLt(l, x)
         IN  <<first>> \o SortLeases(ls \ {first})

(* since_date <= last AND (until_date IS NULL OR until_date >= first) *)
ActiveInMonth(l, yyyymm) ==
    /\ DateLeq(l.since_date, month_bounds(yyyymm)[2])
    /\ IsNull(l.until_date) \/ DateLeq(month_bounds(yyyymm)[1], Val(l.until_date))

active_leases_in_month(yyyymm) == SortLeases({l \in leases : ActiveInMonth(l, yyyymm)})

(* Fault: the due day is used as given, up to 31 *)
make_due_date_Unclamped(yyyymm, due_day) == <<yyyymm[1], yyyymm[2], due_day>>

make_due_date(yyyymm, due_day) ==
    <<yyyymm[1], yyyymm[2], Min(due_day, LastDayOfMonth(yyyymm[1], yyyymm[2]))>>

(* The charges of one lease: rent if rent_c, nk if nk_c *)
LeaseCharges(l, yyyymm) ==
    LET d == make_due_date(yyyymm, l.due_day)
    IN  (IF l.rent_cents # 0 THEN <<Charge(l.tenant_id, "rent", d, l.rent_cents)>> ELSE <<>>)
           \o (IF l.nk_cents # 0 THEN <<Charge(l.tenant_id, "nk", d, l.nk_cents)>> ELSE <<>>)

RECURSIVE ChargesOfLeases(_, _)
ChargesOfLeases(ls, yyyymm) ==
    IF ls = <<>> THEN <<>>
    ELSE LeaseCharges(Head(ls), yyyymm) \o ChargesOfLeases(Tail(ls), yyyymm)

build_monthly_charges(month) == ChargesOfLeases(active_leases_in_month(month), month)

(* SpecLeases: add-lease, and build_monthly_charges applied to a month *)

Lease(tenant_id, since_date, until_date, rent_cents, nk_cents, due_day) ==
    [tenant_id |-> tenant_id, since_date |-> since_date, until_date |-> until_date,
     rent_cents |-> rent_cents, nk_cents |-> nk_cents, due_day |-> due_day]

LeaseInputs ==
    {Lease(t, since, until, amts[1], amts[2], due_day) :
        t \in tenants, since \in {<<2024, 2, 15>>, <<2025, 7, 1>>},
        until \in {NULL, Some(<<2025, 7, 31>>)},
        amts \in {<<85000, 20000>>, <<0, 20000>>, <<85000, 0>>},
        due_day \in {3, 31}}

MonthInputs == {<<2024, 1>>, <<2024, 2>>, <<2025, 2>>, <<2025, 6>>, <<2025, 7>>, <<2025, 8>>}

LeasesAddLease == \E l \in LeaseInputs : cmd_add_lease(l)

LeasesBuildMonthlyCharges ==
    /\ \E month \in MonthInputs :
          last' = [op |-> "build_monthly_charges", month |-> month,
                   charges |-> build_monthly_charges(month)]
    /\ UNCHANGED <<bank, splits, rules, rule_parts, leases, manual_charges, fifo>>

NextLeases == LeasesAddLease \/ LeasesBuildMonthlyCharges

SpecLeases == Init /\ [][NextLeases]_vars

----------------------------------------------------------------------------
(* SpecFifo: apply_payments_fifo, line by line, on the charges and         *)
(* payments of one tenant                                                  *)

AsofInputs == {<<2025, 7, 31>>}

(* Rent 850.00 due in June and July, operating costs 200.00 due in July    *)
(* and August, manual charges of 300.00 due in June and August, and a      *)
(* credit of 50.00                                                         *)
ChargeInputs ==
    {Charge("M001", "rent", d, 85000) : d \in {<<2025, 6, 3>>, <<2025, 7, 3>>}}
       \cup {Charge("M001", "nk", d, 20000) : d \in {<<2025, 7, 3>>, <<2025, 8, 3>>}}
       \cup {Charge("M001", "nka", d, 30000) : d \in {<<2025, 6, 3>>, <<2025, 8, 3>>}}
       \cup {Charge("M001", "nka", <<2025, 7, 3>>, -5000)}

PaymentInputs ==
    {[date |-> <<2025, 7, 5>>, amount_cents |-> 90000],
     [date |-> <<2025, 7, 1>>, amount_cents |-> 15000],
     [date |-> <<2025, 8, 1>>, amount_cents |-> 90000]}

PriorityInputs == {"oldest", "rent_first", "nk_first", "nka_first"}

ListsUpTo(S, n) == UNION {[1..k -> S] : k \in 0..n}

InitFifo ==
    /\ bank = <<>> /\ splits = <<>> /\ rules = <<>> /\ rule_parts = <<>>
    /\ leases = {} /\ manual_charges = <<>>
    /\ \E cs \in ListsUpTo(ChargeInputs, MaxCharges), ps \in ListsUpTo(PaymentInputs, MaxPayments),
          asof \in AsofInputs, priority \in PriorityInputs :
          fifo = FifoCall(cs, ps, asof, priority)
    /\ last = Plain("init", TRUE)

NextFifo ==
    FifoPrepare \/ FifoNextPayment \/ FifoReturn \/ FifoEndWalk \/ FifoBreak
       \/ FifoContinue \/ FifoTake

SpecFifo == InitFifo /\ [][NextFifo]_vars

----------------------------------------------------------------------------
(* Aging buckets *)

(* Fault: exclusive upper bounds *)
bucket_for_Exclusive(days_overdue) ==
    IF days_overdue < 30 THEN "0-30"
    ELSE IF days_overdue < 60 THEN "31-60"
    ELSE IF days_overdue < 90 THEN "61-90"
    ELSE "90+"

bucket_for(days_overdue) ==
    IF days_overdue <= 30 THEN "0-30"
    ELSE IF days_overdue <= 60 THEN "31-60"
    ELSE IF days_overdue <= 90 THEN "61-90"
    ELSE "90+"

(* SpecBucket: bucket_for applied to one number of days *)

InitBucket ==
    /\ bank = <<>> /\ splits = <<>> /\ rules = <<>> /\ rule_parts = <<>>
    /\ leases = {} /\ manual_charges = <<>>
    /\ fifo \in {[pc |-> "days", days |-> d] : d \in -MaxDaysOverdue..MaxDaysOverdue}
    /\ last = Plain("init", TRUE)

BucketFor ==
    /\ fifo.pc = "days"
    /\ fifo' = [pc |-> "bucket", days |-> fifo.days, bucket |-> bucket_for(fifo.days)]
    /\ UNCHANGED <<bank, splits, rules, rule_parts, leases, manual_charges, last>>

NextBucket == BucketFor

SpecBucket == InitBucket /\ [][NextBucket]_vars

----------------------------------------------------------------------------
(* The aging report: cmd_rent_aging *)

cmd_add_nka(tenant_id, due_date, amt_c) ==
    /\ manual_charges' =
          IF tenant_id \in tenants
          THEN Append(manual_charges, [tenant_id |-> tenant_id, kind |-> "nka",
                                       due_date |-> due_date, amount_cents |-> amt_c])
          ELSE manual_charges
    /\ last' = Plain("add_nka", tenant_id \in tenants)
    /\ UNCHANGED <<bank, splits, rules, rule_parts, leases, fifo>>

(* add_months(d, n), with Python's floor division and modulo *)
add_months(d, n) ==
    LET m0 == d[2] - 1 + n
        y == d[1] + (m0 \div 12)
        m == (m0 % 12) + 1
    IN  <<y, m, Min(d[3], LastDayOfMonth(y, m))>>

(* iter_months: the months from start to end as <<year, month>> *)
RECURSIVE MonthsFrom(_, _)
MonthsFrom(cur, end) ==
    IF DateLeq(cur, end)
    THEN <<(<<cur[1], cur[2]>>)>> \o MonthsFrom(add_months(cur, 1), end)
    ELSE <<>>

iter_months(start_yyyymm, end_yyyymm) ==
    MonthsFrom(<<start_yyyymm[1], start_yyyymm[2], 1>>, <<end_yyyymm[1], end_yyyymm[2], 1>>)

(* ORDER BY a date, then the row id: rows of equal date keep their order *)
RECURSIVE InsertByDate(_, _)
InsertByDate(sorted, x) ==
    IF sorted = <<>> THEN <<x>>
    ELSE IF DateLt(x.date, Head(sorted).date) THEN <<x>> \o sorted
    ELSE <<Head(sorted)>> \o InsertByDate(Tail(sorted), x)

RECURSIVE SortByDate(_)
SortByDate(rows) ==
    IF rows = <<>> THEN <<>>
    ELSE InsertByDate(SortByDate(SubSeq(rows, 1, Len(rows) - 1)), rows[Len(rows)])

Between(d, lo, hi) == DateLeq(lo, d) /\ DateLeq(d, hi)

(* kinds=['nka'], due_date BETWEEN the two dates, ORDER BY due_date, id *)
fetch_manual_charges(tenant_id, start_date, end_date) ==
    LET rows == SelectSeq(manual_charges,
                          LAMBDA r : /\ r.tenant_id = tenant_id /\ r.kind = "nka"
                                     /\ Between(r.due_date, start_date, end_date))
        keyed == SortByDate([i \in 1..Len(rows) |-> [date |-> rows[i].due_date, row |-> rows[i]]])
    IN  [i \in 1..Len(keyed) |->
            Charge(keyed[i].row.tenant_id, keyed[i].row.kind, keyed[i].row.due_date,
                   keyed[i].row.amount_cents)]

(* The splits of a tenant on the accounts, by bank date; only amounts > 0 *)
fetch_payments(tenant_id, accts, start_date, end_date) ==
    LET rows == SelectSeq(splits,
                          LAMBDA x : /\ x.tenant_id = Some(tenant_id) /\ x.account \in accts
                                     /\ Between(bank[x.bank_id].op_date, start_date, end_date))
        keyed == SortByDate([i \in 1..Len(rows) |->
                               [date |-> bank[rows[i].bank_id].op_date,
                                amount_cents |-> rows[i].amount_cents]])
    IN  SelectSeq(keyed, LAMBDA p : p.amount_cents > 0)

(* The arguments of rent-aging: asof, --from-month (NULL when absent) and  *)
(* --priority; the account lists are the defaults.                         *)
StartMonth(args) ==
    IF ~IsNull(args.from_month) THEN Val(args.from_month)
    ELSE LET tmp == add_months(<<args.asof[1], args.asof[2], 1>>, -11) IN <<tmp[1], tmp[2]>>

EndMonth(args) == <<args.asof[1], args.asof[2]>>

(* Lines 803-811: the lease charges of the tenant, month by month *)
RECURSIVE LeaseChargesOver(_, _)
LeaseChargesOver(tid, months) ==
    IF months = <<>> THEN <<>>
    ELSE LET mm == Head(months)
             active == \E l \in leases : l.tenant_id = tid /\ ActiveInMonth(l, mm)
         IN  (IF active THEN SelectSeq(build_monthly_charges(mm), LAMBDA c : c.tenant_id = tid)
              ELSE <<>>)
                \o LeaseChargesOver(tid, Tail(months))

(* Lines 802-815 *)
TenantCharges(tid, args) ==
    LeaseChargesOver(tid, iter_months(StartMonth(args), EndMonth(args)))
       \o fetch_manual_charges(tid, month_bounds(StartMonth(args))[1],
                               month_bounds(EndMonth(args))[2])

(* Lines 820-825 *)
TenantPayments(tid, args) ==
    LET start_date == month_bounds(StartMonth(args))[1]
    IN  fetch_payments(tid, {"3000"}, start_date, args.asof)
           \o fetch_payments(tid, {"3010"}, start_date, args.asof)
           \o fetch_payments(tid, {"3020"}, start_date, args.asof)

(* Line 827; the tenant is passed over when there is no charge at all *)
TenantResult(tid, args) ==
    IF TenantCharges(tid, args) = <<>> THEN <<>>
    ELSE apply_payments_fifo(TenantCharges(tid, args), TenantPayments(tid, args),
                             args.asof, args.priority)

BucketNames == {"0-30", "31-60", "61-90", "90+"}

(* Lines 829-837 *)
RECURSIVE SumBuckets(_, _, _)
SumBuckets(charges, asof, acc) ==
    IF charges = <<>> THEN acc
    ELSE LET c == Head(charges)
             b == bucket_for(toordinal(asof) - toordinal(c.due_date))
         IN  IF c.open_cents <= 0 THEN SumBuckets(Tail(charges), asof, acc)
             ELSE SumBuckets(Tail(charges), asof,
                             [acc EXCEPT !.buckets[b] = @ + c.open_cents,
                                         !.total_open = @ + c.open_cents])

(* Fault: a row is printed for every tenant that has charges *)
RowPrinted_Always(total_open) == TRUE

(* if total_open > 0 *)
RowPrinted(total_open) == total_open > 0

TenantSeq == <<"M001", "M002">>

RECURSIVE AgingRows(_, _)
AgingRows(tids, args) ==
    IF tids = <<>> THEN <<>>
    ELSE LET tid == Head(tids)
             sums == SumBuckets(TenantResult(tid, args), args.asof,
                                [buckets |-> [b \in BucketNames |-> 0], total_open |-> 0])
         IN  (IF TenantCharges(tid, args) # <<>> /\ RowPrinted(sums.total_open)
              THEN <<[tenant_id |-> tid, buckets |-> sums.buckets,
                      total_open |-> sums.total_open]>>
              ELSE <<>>)
                \o AgingRows(Tail(tids), args)

cmd_rent_aging(args) ==
    /\ last' = [op |-> "rent_aging", args |-> args, rows |-> AgingRows(TenantSeq, args)]
    /\ UNCHANGED <<bank, splits, rules, rule_parts, leases, manual_charges, fifo>>

(* SpecAging: leases, manual charges, one bank row with splits, and the    *)
(* report                                                                  *)

AgingLeaseInputs ==
    {Lease("M001", <<2025, 5, 1>>, NULL, 85000, 20000, 3),
     Lease("M002", <<2025, 7, 1>>, NULL, 85000, 0, 31)}

NkaInputs ==
    {<<"M001", <<2025, 6, 10>>, 30000>>, <<"M001", <<2025, 7, 20>>, -5000>>,
     <<"M002", <<2025, 3, 1>>, 30000>>, <<"M999", <<2025, 6, 10>>, 30000>>}

AgingBankInputs == {<<2025, 7, 5>>, <<2025, 8, 20>>}

AgingArgs ==
    [asof : {<<2025, 7, 31>>, <<2025, 10, 15>>}, from_month : {NULL, Some(<<2025, 6>>)},
     priority : {"oldest", "nk_first"}]

AgingAddLease == \E l \in AgingLeaseInputs : l \notin leases /\ cmd_add_lease(l)

AgingAddNka ==
    /\ Len(manual_charges) < MaxManualCharges
    /\ \E n \in NkaInputs : cmd_add_nka(n[1], n[2], n[3])

AgingImportBank ==
    /\ bank = <<>>
    /\ \E d \in AgingBankInputs, desc \in DescInputs : cmd_import_bank(d, 105000, desc)

AgingAddSplit ==
    /\ Len(splits) < MaxAgingSplits
    /\ \E acct \in {"3000", "3020"} : cmd_add_split(1, <<Triple(acct, 90000, "M001")>>)

RentAging == \E args \in AgingArgs : cmd_rent_aging(args)

NextAging == AgingAddLease \/ AgingAddNka \/ AgingImportBank \/ AgingAddSplit \/ RentAging

SpecAging == Init /\ [][NextAging]_vars


----------------------------------------------------------------------------
(* SpecPercent: one bank row and one rule with one or two percent parts    *)
(* and a remainder part, tested against the row                            *)

PercentAmountInputs == {-250, -125, -5, -3, -1, 1, 3, 5, 125, 250}

(* 50 %, 64.4 % and 64.6 % *)
PercentInputs == {5000, 6440, 6460}

StoredPart(kind, value_percent) ==
    [rule_id |-> 1, account |-> "3000", tenant_id |-> NULL, kind |-> kind,
     value_cents |-> NULL, value_percent |-> value_percent, note_template |-> ""]

InitPercent ==
    /\ \E d \in ImportDateInputs, amt \in PercentAmountInputs, desc \in DescInputs :
          bank = <<[op_date |-> d, amount_cents |-> amt, description |-> desc]>>
    /\ rules = <<Rule(NULL, NULL, NULL, NULL, "any", 1, 1)>>
    /\ splits = <<>>
    /\ \/ \E pct \in PercentInputs :
             rule_parts = <<StoredPart("percent", Some(pct)), StoredPart("remainder", NULL)>>
       \/ \E pct1, pct2 \in PercentInputs :
             rule_parts = <<StoredPart("percent", Some(pct1)), StoredPart("percent", Some(pct2)),
                            StoredPart("remainder", NULL)>>
    /\ leases = {}
    /\ manual_charges = <<>>
    /\ fifo = Idle
    /\ last = Plain("init", TRUE)

PercentTestRule == last.op = "init" /\ cmd_test_rule(1, 1)

NextPercent == PercentTestRule

SpecPercent == InitPercent /\ [][NextPercent]_vars

----------------------------------------------------------------------------
(* SpecMatch: one rule without parts and one bank row; test-rule reports   *)
(* "Regel passt nicht" exactly when match_rule is false                    *)

LikeInputs == {NULL, Some(<<"a">>), Some(<<" ", "%", "a", "%", " ">>), Some(<<" ">>), Some(<<"b">>)}

(* A literal A, a malformed pattern, and the empty pattern *)
RegexInputs ==
    {NULL, Some([valid |-> TRUE, lit |-> <<"A">>]), Some([valid |-> FALSE, lit |-> <<"(">>]),
     Some([valid |-> TRUE, lit |-> <<>>])}

MatchRuleInputs ==
    {Rule(like, regex, min_c, max_c, sign, 1, active) :
        like \in LikeInputs, regex \in RegexInputs,
        min_c \in {NULL, Some(0), Some(1)}, max_c \in {NULL, Some(0), Some(1)},
        sign \in {"in", "out", "any"}, active \in {0, 1}}

MatchDescInputs == {<<>>, <<"a">>, <<"A", "b">>}

InitMatch ==
    /\ \E d \in ImportDateInputs, amt \in AllocAmountInputs, desc \in MatchDescInputs :
          bank = <<[op_date |-> d, amount_cents |-> amt, description |-> desc]>>
    /\ rules \in {<<r>> : r \in MatchRuleInputs}
    /\ splits = <<>>
    /\ rule_parts = <<>>
    /\ leases = {}
    /\ manual_charges = <<>>
    /\ fifo = Idle
    /\ last = Plain("init", TRUE)

MatchTestRule == last.op = "init" /\ cmd_test_rule(1, 1)

NextMatch == MatchTestRule

SpecMatch == InitMatch /\ [][NextMatch]_vars

----------------------------------------------------------------------------
(* Properties.  A step of cmd_test_rule or cmd_apply_rules is recognised   *)
(* by what it leaves in last'; the store before the step is the unprimed   *)
(* state.                                                                  *)

TestStep == last'.op = "test_rule"

TestFound == TestStep /\ last'.rule_id \in 1..Len(rules) /\ last'.bank_id \in 1..Len(bank)

(* The rows the step appended to splits *)
Inserted == SubSeq(splits', Len(splits) + 1, Len(splits'))

TestedParts == PartsOf(last.rule_id)

TestedAmount == bank[last.bank_id].amount_cents

(* C1: whenever apply_rule_to_bank reports success, the amounts of the     *)
(* splits it inserted sum to the transaction's amount_cents exactly.       *)
C1_BalanceOnSuccess ==
    [][(TestStep /\ last'.ok) =>
         SumSeq(Amounts(Inserted)) = bank[last'.bank_id].amount_cents]_vars

(* A success that inserted a rounded percent split beside another split *)
C1_Witness ==
    /\ last.op = "test_rule" /\ last.ok
    /\ TestedAmount # 0
    /\ \E i \in 1..Len(TestedParts) : TestedParts[i].kind = "percent"
    /\ Len(TestedParts) >= 2
    /\ Len(splits) >= 2

(* C2: whenever apply_rule_to_bank reports failure, whatever the reason,   *)
(* the stored splits are exactly what they were before the call.           *)
C2_NoPartialSplits ==
    [][(TestStep /\ ~last'.ok) => splits' = splits]_vars

(* A balance mismatch found after the amounts of two parts were computed,  *)
(* with splits already stored                                              *)
C2_Witness ==
    /\ last.op = "test_rule" /\ ~last.ok
    /\ last.msg = "balance_mismatch"
    /\ Len(TestedParts) >= 2
    /\ splits # <<>>

----------------------------------------------------------------------------
(* The parts of the rule a test step names, and what the claims expect of  *)
(* them, stated without the allocator's operators                          *)

StepParts == PartsOf(last'.rule_id)

StepAmount == bank[last'.bank_id].amount_cents

StepMatches == TestFound /\ match_rule(rules[last'.rule_id], bank[last'.bank_id])

KindCount(parts, kind) == Cardinality({i \in 1..Len(parts) : parts[i].kind = kind})

FixedParts(parts) == SelectSeq(parts, LAMBDA p : p.kind = "fixed")

PercentParts(parts) ==
    SelectSeq(parts, LAMBDA p : p.kind = "percent" /\ ~IsNull(p.value_percent))

AllValued(parts) ==
    \A i \in 1..Len(parts) :
        /\ parts[i].kind = "fixed" => ~IsNull(parts[i].value_cents)
        /\ parts[i].kind = "percent" => ~IsNull(parts[i].value_percent)

(* Sum of the percent values, in hundredths of a percent *)
PercentTotal(parts) ==
    SumSeq([i \in 1..Len(PercentParts(parts)) |-> Val(PercentParts(parts)[i].value_percent)])

(* The magnitude of v with the sign of amt; v itself when amt is 0 *)
CoercedFixed(amt, v) == IF amt > 0 THEN Abs(v) ELSE IF amt < 0 THEN -Abs(v) ELSE v

(* The integer nearest to amt * pct / 10000, the even one of two nearest *)
NearestCents(amt, pct) ==
    CHOOSE n \in -(Abs(amt) * 2 + 1)..(Abs(amt) * 2 + 1) :
        /\ 2 * Abs(10000 * n - amt * pct) <= 10000
        /\ 2 * Abs(10000 * n - amt * pct) = 10000 => n % 2 = 0

ExpectedFixedSum(parts, amt) ==
    SumSeq([i \in 1..Len(FixedParts(parts)) |->
              CoercedFixed(amt, Val(FixedParts(parts)[i].value_cents))])

ExpectedPercentSum(parts, amt) ==
    SumSeq([i \in 1..Len(PercentParts(parts)) |->
              NearestCents(amt, Val(PercentParts(parts)[i].value_percent))])

(* C7 as stated: on success the split of every fixed part has the          *)
(* magnitude of the stored value_cents and the sign of the transaction     *)
(* amount, for every amount, 0 included.                                   *)
C7_SignOfTransactionAlways ==
    [][(TestStep /\ last'.ok) =>
         \A i \in 1..Len(FixedParts(StepParts)) :
            /\ Abs(Inserted[i].amount_cents) = Abs(Val(FixedParts(StepParts)[i].value_cents))
            /\ Sgn(Inserted[i].amount_cents) \in {0, Sgn(StepAmount)}]_vars

(* C7 amended: on success the split of every fixed part is the magnitude   *)
(* of the stored value_cents with the sign of the transaction amount when  *)
(* that amount is not 0, and the stored value unchanged when it is 0.      *)
C7_SignCoercion ==
    [][(TestStep /\ last'.ok) =>
         \A i \in 1..Len(FixedParts(StepParts)) :
            LET v == Val(FixedParts(StepParts)[i].value_cents)
                a == Inserted[i].amount_cents
            IN  /\ StepAmount > 0 => a = Abs(v)
                /\ StepAmount < 0 => a = -Abs(v)
                /\ StepAmount = 0 => a = v]_vars

(* A stored 2 on a transaction of -2 gave a split of -2 *)
C7_Witness ==
    /\ last.op = "test_rule" /\ last.ok
    /\ TestedAmount = -2
    /\ FixedParts(TestedParts) # <<>>
    /\ Val(FixedParts(TestedParts)[1].value_cents) = 2
    /\ \E i \in 1..Len(splits) : splits[i].amount_cents = -2 /\ splits[i].note.rule = last.rule_id

(* C8: a matching rule whose percent parts sum to more than 100 % is       *)
(* rejected with no percent amount computed and no split written; a sum    *)
(* of exactly 100 % is not rejected as an overflow.                        *)
C8_PercentSumRejected ==
    [][StepMatches =>
         /\ PercentTotal(StepParts) > 10000 =>
              /\ ~last'.ok
              /\ splits' = splits
              /\ Len(apply_rule_to_bank(last'.rule_id, last'.bank_id).splits_to_insert)
                    <= KindCount(StepParts, "fixed")
         /\ PercentTotal(StepParts) = 10000 => last'.msg # "percent_overflow"]_vars

(* 50 % + 50.01 % rejected on a transaction of 1, where the two rounded    *)
(* amounts 0 and 1 would have balanced                                     *)
C8_Witness ==
    /\ last.op = "test_rule" /\ last.msg = "percent_overflow"
    /\ PercentTotal(TestedParts) = 10001
    /\ TestedAmount = 1
    /\ KindCount(TestedParts, "percent") = Len(TestedParts)

(* C9: a rule with two or more remainder parts is rejected on every        *)
(* transaction it matches, whatever its other parts, and no split is       *)
(* written.                                                                *)
C9_MultipleRemainderRejected ==
    [][(StepMatches /\ KindCount(StepParts, "remainder") >= 2) =>
         ~last'.ok /\ splits' = splits]_vars

(* Two remainder parts beside a fixed part that alone would have balanced *)
C9_Witness ==
    /\ last.op = "test_rule" /\ last.msg = "multiple_remainder"
    /\ KindCount(TestedParts, "remainder") = 2
    /\ FixedParts(TestedParts) # <<>>
    /\ ExpectedFixedSum(TestedParts, TestedAmount) = TestedAmount

(* What C10 says of a step whose rule matches and has valued parts *)
BalanceDecides ==
    LET sum == ExpectedFixedSum(StepParts, StepAmount) + ExpectedPercentSum(StepParts, StepAmount)
    IN  /\ KindCount(StepParts, "remainder") = 0 =>
              /\ last'.ok <=> sum = StepAmount
              /\ ~last'.ok => last'.msg = "balance_mismatch"
        /\ (KindCount(StepParts, "remainder") = 1 /\ last'.ok) =>
              Inserted[Len(Inserted)].amount_cents = StepAmount - sum

(* C10 as stated: without a remainder part the allocation succeeds exactly *)
(* when the fixed and percent amounts sum to the transaction amount, and   *)
(* is otherwise rejected as a balance mismatch; one remainder part gets    *)
(* the amount minus the fixed and percent amounts.                         *)
C10_BalanceAloneDecides ==
    [][(StepMatches /\ StepParts # <<>> /\ AllValued(StepParts)) => BalanceDecides]_vars

(* C10 amended: the same, for rules whose percent parts sum to at most     *)
(* 100 %.                                                                  *)
C10_BalanceDecidesWithinPercent ==
    [][(StepMatches /\ StepParts # <<>> /\ AllValued(StepParts)
          /\ PercentTotal(StepParts) <= 10000) => BalanceDecides]_vars

(* 50 % + 50 % of 1 rounds to 0 + 0: a residual of 1 and a mismatch *)
C10_Witness ==
    /\ last.op = "test_rule" /\ last.msg = "balance_mismatch"
    /\ TestedAmount = 1
    /\ KindCount(TestedParts, "percent") = 2 /\ Len(TestedParts) = 2
    /\ PercentTotal(TestedParts) = 10000

----------------------------------------------------------------------------
(* Batch steps *)

BatchStep == last'.op = "apply_rules"

(* The attempts the run logged for bank row b, in order *)
AttemptsOn(b) == SelectSeq(last'.log, LAMBDA a : a.bank_id = b)

Succeeded(b) == \E i \in 1..Len(AttemptsOn(b)) : AttemptsOn(b)[i].ok

Attempted(r, b) == \E i \in 1..Len(AttemptsOn(b)) : AttemptsOn(b)[i].rule_id = r

(* The rows the step appended to the splits of bank row b *)
AddedTo(b) ==
    SubSeq(SplitsOf(splits', b), Len(SplitsOf(splits, b)) + 1, Len(SplitsOf(splits', b)))

WasBalanced(b) == SumSeq(Amounts(SplitsOf(splits, b))) = bank[b].amount_cents

(* The selection the arguments name *)
Selected(b) ==
    IF last'.bank_id # 0 THEN b = last'.bank_id
    ELSE IF last'.only_unbalanced THEN ~WasBalanced(b)
    ELSE TRUE

Candidate(r, b) == rules[r].active = 1 /\ match_rule(rules[r], bank[b])

(* Ascending priority, ties by ascending rule id *)
Earlier(r1, r2) ==
    \/ rules[r1].priority < rules[r2].priority
    \/ rules[r1].priority = rules[r2].priority /\ r1 < r2

(* C3: in a batch run a transaction whose splits already sum to its amount *)
(* has no rule tried on it and no split added, in every selection mode.    *)
C3_BalancedSkipped ==
    [][BatchStep =>
         \A b \in 1..Len(bank) :
            WasBalanced(b) => AttemptsOn(b) = <<>> /\ SplitsOf(splits', b) = SplitsOf(splits, b)]_vars

(* A run over all rows skipped a row that carries splits and that an       *)
(* active rule would have split again                                      *)
C3_Witness ==
    /\ last.op = "apply_rules" /\ last.bank_id = 0 /\ ~last.only_unbalanced
    /\ \E k \in 1..Len(last.skipped) :
          /\ SplitsOf(splits, last.skipped[k]) # <<>>
          /\ \E r \in 1..Len(rules) :
                /\ rules[r].active = 1
                /\ apply_rule_to_bank(r, last.skipped[k]).ok

(* C4: a second batch run directly after a first, with the same arguments, *)
(* rules and transactions, inserts no new splits.                          *)
C4_SecondRunAddsNothing ==
    [][(last.op = "apply_rules" /\ BatchStep
          /\ last'.bank_id = last.bank_id
          /\ last'.only_unbalanced = last.only_unbalanced) => splits' = splits]_vars

(* C5: for each not yet balanced row of the selection the active matching  *)
(* rules are tried in ascending priority, ties by ascending id, up to and  *)
(* including the first that succeeds; its splits alone are added and no    *)
(* rule is tried after it.                                                 *)
C5_FirstSucceedingRuleInOrder ==
    [][BatchStep =>
         \A b \in 1..Len(bank) :
            LET att == AttemptsOn(b)
            IN  /\ \A i \in 1..Len(att) :
                      /\ Candidate(att[i].rule_id, b)
                      /\ att[i].ok <=> apply_rule_to_bank(att[i].rule_id, b).ok
                      /\ att[i].ok => i = Len(att)
                /\ \A i, j \in 1..Len(att) : i < j => Earlier(att[i].rule_id, att[j].rule_id)
                /\ (Selected(b) /\ ~WasBalanced(b)) =>
                      \A r \in 1..Len(rules) :
                         Candidate(r, b) =>
                            \/ Attempted(r, b)
                            \/ \E i \in 1..Len(att) : att[i].ok /\ Earlier(att[i].rule_id, r)
                /\ IF Succeeded(b)
                   THEN /\ AddedTo(b) # <<>>
                        /\ \A k \in 1..Len(AddedTo(b)) :
                              AddedTo(b)[k].note.rule = att[Len(att)].rule_id
                   ELSE AddedTo(b) = <<>>]_vars

(* Rule 2, of the lower priority number, was tried first and rejected;     *)
(* rule 1 was tried next and applied                                       *)
C5_Witness ==
    /\ last.op = "apply_rules"
    /\ Len(last.log) = 2
    /\ last.log[1].rule_id = 2 /\ ~last.log[1].ok
    /\ last.log[2].rule_id = 1 /\ last.log[2].ok
    /\ last.log[1].bank_id = last.log[2].bank_id

(* C6: a rejected allocation stops neither the rules of its row nor the    *)
(* rows after it: every not yet balanced row of the selection has each of  *)
(* its active matching rules tried unless one succeeded, and the reported  *)
(* count is the number of rows on which a rule succeeded.                  *)
C6_RejectionDoesNotAbort ==
    [][BatchStep =>
         /\ \A b \in 1..Len(bank) :
               (Selected(b) /\ ~WasBalanced(b)) =>
                   \/ Succeeded(b)
                   \/ \A r \in 1..Len(rules) : Candidate(r, b) => Attempted(r, b)
         /\ last'.applied = Cardinality({b \in 1..Len(bank) : Succeeded(b)})
         /\ \A b \in 1..Len(bank) : Succeeded(b) <=> AddedTo(b) # <<>>]_vars

(* A rejection on row 1, then a rule applied on row 2, and a count of 1 *)
C6_Witness ==
    /\ last.op = "apply_rules"
    /\ last.applied = 1
    /\ \E i, j \in 1..Len(last.log) :
          /\ i < j
          /\ last.log[i].bank_id = 1 /\ ~last.log[i].ok
          /\ last.log[j].bank_id = 2 /\ last.log[j].ok
    /\ \A i \in 1..Len(last.log) : last.log[i].bank_id = 1 => ~last.log[i].ok

----------------------------------------------------------------------------
(* Manual splits *)

(* C20: an add-split that names an unknown account or an unknown tenant in *)
(* any of its triples stores none of its splits.                           *)
C20_AbortStoresNothing ==
    [][(last'.op = "add_split" /\ last'.msg \in {"unknown_account", "unknown_tenant"})
          => splits' = splits]_vars

----------------------------------------------------------------------------
(* Rule matcher *)

(* The text conditions of a rule that are set, and whether they hold *)
LikeSet(r) == ~IsNull(r.like) /\ Strip(Val(r.like), {" "}) # <<>>

LikeHolds(r, desc) == Contains(Strip(Strip(Val(r.like), {" "}), {"%"}), desc)

RegexSet(r) == ~IsNull(r.regex) /\ ~(Val(r.regex).valid /\ Val(r.regex).lit = <<>>)

RegexHolds(r, desc) ==
    /\ Val(r.regex).valid
    /\ \E i \in 0..(Len(desc) - Len(Val(r.regex).lit)) :
          \A k \in 1..Len(Val(r.regex).lit) :
             Lower(<<desc[i + k]>>) = Lower(<<Val(r.regex).lit[k]>>)

ConditionsHold(r, b) ==
    /\ r.active # 0
    /\ IsNull(r.min_c) \/ b.amount_cents >= Val(r.min_c)
    /\ IsNull(r.max_c) \/ b.amount_cents <= Val(r.max_c)
    /\ \/ r.sign = "any"
       \/ r.sign = "in" /\ b.amount_cents > 0
       \/ r.sign = "out" /\ b.amount_cents < 0
    /\ LikeSet(r) => LikeHolds(r, b.description)
    /\ RegexSet(r) => RegexHolds(r, b.description)

Unconditional(r) ==
    /\ IsNull(r.like) /\ IsNull(r.regex) /\ IsNull(r.min_c) /\ IsNull(r.max_c)
    /\ r.sign = "any"

(* C17: match_rule is true exactly when the rule is active and each of its *)
(* set conditions (minimum, maximum, sign, text) holds; an inactive rule   *)
(* matches nothing and an active rule without conditions matches every     *)
(* transaction, one of amount 0 included.                                  *)
C17_MatchIsConjunction ==
    [][TestFound =>
         LET r == rules[last'.rule_id]
             b == bank[last'.bank_id]
             matched == last'.msg # "no_match"
         IN  /\ matched <=> ConditionsHold(r, b)
             /\ r.active = 0 => ~matched
             /\ (r.active # 0 /\ Unconditional(r)) => matched]_vars

(* A rule with every condition set matched a transaction of amount 1 *)
C17_Witness ==
    /\ last.op = "test_rule" /\ last.msg = "no_parts"
    /\ LET r == rules[1]
       IN  /\ LikeSet(r) /\ RegexSet(r)
           /\ ~IsNull(r.min_c) /\ ~IsNull(r.max_c)
           /\ r.sign = "in"
    /\ bank[1].amount_cents = 1

----------------------------------------------------------------------------
(* Buckets *)

(* C16: bucket_for gives "0-30" up to 30 days (0 and negative numbers      *)
(* included), "31-60" for 31..60, "61-90" for 61..90 and "90+" above 90.   *)
C16_BucketBounds ==
    fifo.pc = "bucket" =>
        /\ fifo.bucket \in {"0-30", "31-60", "61-90", "90+"}
        /\ fifo.bucket = "0-30" <=> fifo.days <= 30
        /\ fifo.bucket = "31-60" <=> fifo.days \in 31..60
        /\ fifo.bucket = "61-90" <=> fifo.days \in 61..90
        /\ fifo.bucket = "90+" <=> fifo.days > 90
        /\ fifo.days = 30 => fifo.bucket = "0-30"
        /\ fifo.days = 31 => fifo.bucket = "31-60"
        /\ fifo.days = 60 => fifo.bucket = "31-60"
        /\ fifo.days = 61 => fifo.bucket = "61-90"
        /\ fifo.days = 90 => fifo.bucket = "61-90"
        /\ fifo.days = 91 => fifo.bucket = "90+"

(* 60 days overdue put into "31-60" *)
C16_Witness == fifo.pc = "bucket" /\ fifo.days = 60 /\ fifo.bucket = "31-60"

----------------------------------------------------------------------------
(* Allocation of payments to charges *)

Allocating == fifo.pc \in {"pay", "walk", "done"}

WithinAmount(c) == 0 <= c.open_cents /\ c.open_cents <= c.amount_cents

(* C11 as stated: every charge created for the computation has             *)
(* 0 <= open_cents <= amount_cents from its creation on.                   *)
C11_OpenWithinAmountFromCreation ==
    fifo.pc \in {"call", "pay", "walk", "done"} =>
        /\ \A i \in 1..Len(fifo.input) : WithinAmount(fifo.input[i])
        /\ \A i \in 1..Len(fifo.charges) : WithinAmount(fifo.charges[i])

(* C11 amended: every charge that takes part in the allocation has         *)
(* 0 <= open_cents <= amount_cents after each step and at the end.         *)
C11_OpenWithinAmountInAllocation ==
    Allocating => \A i \in 1..Len(fifo.charges) : WithinAmount(fifo.charges[i])

(* A payment has just been taken from a charge and left it partly open,    *)
(* in a computation whose input held a credit                              *)
C11_Witness ==
    /\ fifo.pc = "walk" /\ fifo.take > 0
    /\ \E i \in 1..Len(fifo.charges) :
          0 < fifo.charges[i].open_cents /\ fifo.charges[i].open_cents < fifo.charges[i].amount_cents
    /\ \E i \in 1..Len(fifo.input) : fifo.input[i].amount_cents < 0

(* Fully paid charges, then at most one partly paid, then untouched ones *)
PaidPrefix(cs) ==
    \A i, j \in 1..Len(cs) :
        (i < j /\ cs[j].open_cents < cs[j].amount_cents) => cs[i].open_cents = 0

(* C12: after every step the charges in their sorted order are a prefix of *)
(* fully paid ones, at most one partly paid one and a suffix of untouched  *)
(* ones, and a payment takes min(open, remaining) from each open charge it *)
(* reaches.                                                                *)
C12_GreedyInOrder ==
    [][/\ fifo'.pc \in {"pay", "walk", "done"} => PaidPrefix(fifo'.charges)
       /\ (fifo.pc = "walk" /\ fifo.c <= Len(fifo.charges) /\ fifo.remaining > 0
              /\ fifo.charges[fifo.c].open_cents > 0) =>
             LET open == fifo.charges[fifo.c].open_cents
                 least == IF open <= fifo.remaining THEN open ELSE fifo.remaining
             IN  /\ fifo'.charges[fifo.c].open_cents = open - least
                 /\ fifo'.remaining = fifo.remaining - least
                 /\ \A k \in 1..Len(fifo.charges) :
                       k # fifo.c => fifo'.charges[k] = fifo.charges[k]]_vars

(* Three charges: the first paid, the second partly paid, the third        *)
(* untouched, the payment used up                                          *)
C12_Witness ==
    /\ fifo.pc = "walk" /\ Len(fifo.charges) = 3 /\ fifo.remaining = 0
    /\ fifo.charges[1].open_cents = 0
    /\ 0 < fifo.charges[2].open_cents /\ fifo.charges[2].open_cents < fifo.charges[2].amount_cents
    /\ fifo.charges[3].open_cents = fifo.charges[3].amount_cents

(* The charges as created: open_cents back at amount_cents *)
AsCreated(cs) == [i \in 1..Len(cs) |-> [cs[i] EXCEPT !.open_cents = cs[i].amount_cents]]

DueUpTo(cs, asof) == SelectSeq(cs, LAMBDA c : DateLeq(c.due_date, asof) /\ c.amount_cents > 0)

(* The place of a kind under a mode that names a kind first *)
KindRank(kind, priority) ==
    IF priority = "rent_first" THEN (IF kind = "rent" THEN 0 ELSE IF kind = "nk" THEN 1 ELSE 2)
    ELSE IF priority = "nk_first" THEN (IF kind = "nk" THEN 0 ELSE IF kind = "rent" THEN 1 ELSE 2)
    ELSE IF priority = "nka_first" THEN (IF kind = "nka" THEN 0 ELSE IF kind = "rent" THEN 1 ELSE 2)
    ELSE 0

(* c1 is to be paid before c2, whatever their order in the input *)
PaidBefore(c1, c2, priority) ==
    \/ KindRank(c1.kind, priority) < KindRank(c2.kind, priority)
    \/ /\ KindRank(c1.kind, priority) = KindRank(c2.kind, priority)
       /\ DateLt(c1.due_date, c2.due_date)

SameClass(c1, c2, priority) == ~PaidBefore(c1, c2, priority) /\ ~PaidBefore(c2, c1, priority)

ExampleCharges ==
    <<Charge("M001", "rent", <<2025, 7, 3>>, 85000), Charge("M001", "nk", <<2025, 7, 3>>, 20000)>>

ExamplePayments == <<[date |-> <<2025, 7, 5>>, amount_cents |-> 90000]>>

OpenOf(cs, kind) == SumSeq([i \in 1..Len(cs) |-> IF cs[i].kind = kind THEN cs[i].open_cents ELSE 0])

(* C13: the order of payment follows the mode: under oldest the due date   *)
(* alone, charges of one due date in input order; under rent_first,        *)
(* nk_first, nka_first the named kind first, the other two kinds in a      *)
(* fixed order, the due date within a kind.  Rent 85000 and operating      *)
(* costs 20000 of one due date with a payment of 90000 end at 0 and 15000  *)
(* under oldest, at 15000 and 0 under nk_first.                            *)
C13_OrderByPriorityMode ==
    Allocating =>
        LET cs == AsCreated(fifo.charges)
            inp == DueUpTo(fifo.input, fifo.asof)
        IN  /\ \A i, j \in 1..Len(cs) : i < j => ~PaidBefore(cs[j], cs[i], fifo.priority)
            /\ Len(cs) = Len(inp)
            /\ \A i \in 1..Len(inp) :
                  SelectSeq(cs, LAMBDA c : SameClass(c, inp[i], fifo.priority))
                     = SelectSeq(inp, LAMBDA c : SameClass(c, inp[i], fifo.priority))
            /\ (fifo.pc = "done" /\ fifo.input = ExampleCharges /\ fifo.paid = ExamplePayments) =>
                  /\ fifo.priority = "oldest" =>
                        OpenOf(fifo.charges, "rent") = 0 /\ OpenOf(fifo.charges, "nk") = 15000
                  /\ fifo.priority = "nk_first" =>
                        OpenOf(fifo.charges, "nk") = 0 /\ OpenOf(fifo.charges, "rent") = 15000

(* The example under nk_first: operating costs paid, rent open at 15000 *)
C13_Witness ==
    /\ fifo.pc = "done" /\ fifo.priority = "nk_first"
    /\ fifo.input = ExampleCharges /\ fifo.paid = ExamplePayments
    /\ fifo.charges[1].kind = "nk" /\ fifo.charges[1].open_cents = 0
    /\ fifo.charges[2].kind = "rent" /\ fifo.charges[2].open_cents = 15000

(* C14: a charge due after the as-of date is not in the result and takes   *)
(* nothing from any payment: the result is that of the same call without   *)
(* the charges due after the as-of date, under every mode.                 *)
C14_FutureChargesExcluded ==
    Allocating =>
        /\ \A i \in 1..Len(fifo.charges) : ~DateLt(fifo.asof, fifo.charges[i].due_date)
        /\ fifo.pc = "done" =>
              fifo.charges =
                 apply_payments_fifo(
                    SelectSeq(fifo.input, LAMBDA c : ~DateLt(fifo.asof, c.due_date)),
                    fifo.paid, fifo.asof, fifo.priority)

(* A call with a charge due after the as-of date listed first, returned    *)
(* with a later-listed charge paid                                         *)
C14_Witness ==
    /\ fifo.pc = "done"
    /\ Len(fifo.input) >= 2 /\ DateLt(fifo.asof, fifo.input[1].due_date)
    /\ fifo.input[1].amount_cents > 0
    /\ fifo.priority = "nka_first" /\ fifo.input[1].kind = "nka"
    /\ \E i \in 1..Len(fifo.charges) : fifo.charges[i].open_cents < fifo.charges[i].amount_cents

(* C15: a payment dated after the as-of date reduces no charge: the result *)
(* is that of the same call without the payments dated after the as-of     *)
(* date.                                                                   *)
C15_FuturePaymentsExcluded ==
    /\ fifo.pc = "done" =>
          fifo.charges =
             apply_payments_fifo(
                fifo.input, SelectSeq(fifo.paid, LAMBDA p : ~DateLt(fifo.asof, p.date)),
                fifo.asof, fifo.priority)
    /\ (fifo.pc = "walk" /\ fifo.p <= Len(fifo.payments)) =>
          ~DateLt(fifo.asof, fifo.payments[fifo.p].date)
    /\ (fifo.pc = "done" /\ \A k \in 1..Len(fifo.paid) : DateLt(fifo.asof, fifo.paid[k].date)) =>
          \A i \in 1..Len(fifo.charges) : fifo.charges[i].open_cents = fifo.charges[i].amount_cents

(* A call whose only payments are dated after the as-of date returned its  *)
(* charges untouched                                                       *)
C15_Witness ==
    /\ fifo.pc = "done"
    /\ fifo.paid # <<>> /\ \A k \in 1..Len(fifo.paid) : DateLt(fifo.asof, fifo.paid[k].date)
    /\ fifo.charges # <<>>
    /\ \A i \in 1..Len(fifo.charges) : fifo.charges[i].open_cents = fifo.charges[i].amount_cents

----------------------------------------------------------------------------
(* Charges of a month *)

(* The lease is in force at some point of the month *)
InForce(l, month) ==
    /\ ~DateLt(<<month[1], month[2], 31>>, l.since_date)
    /\ IsNull(l.until_date) \/ ~DateLt(Val(l.until_date), <<month[1], month[2], 1>>)

(* The charge the claim expects of a lease for a kind *)
ExpectedCharge(l, kind, month) ==
    LET amount == IF kind = "rent" THEN l.rent_cents ELSE l.nk_cents
        days == IF month[2] = 2 THEN (IF month[1] % 4 = 0 THEN 29 ELSE 28)
                ELSE IF month[2] \in {4, 6, 9, 11} THEN 30 ELSE 31
    IN  [tenant_id |-> l.tenant_id, kind |-> kind,
         due_date |-> <<month[1], month[2], IF l.due_day < days THEN l.due_day ELSE days>>,
         amount_cents |-> amount, open_cents |-> amount]

(* The (lease, kind) pairs that are to give a charge *)
Emitting(month) ==
    {lk \in leases \X {"rent", "nk"} :
        /\ InForce(lk[1], month)
        /\ (IF lk[2] = "rent" THEN lk[1].rent_cents ELSE lk[1].nk_cents) # 0}

(* C19: build_monthly_charges gives, for each lease in force at some point *)
(* of the month, one rent and one operating-cost charge due on             *)
(* min(due_day, last day of the month) with the lease's amount as amount   *)
(* and open amount, none for a field of 0, and nothing for other leases.   *)
C19_MonthlyCharges ==
    last.op = "build_monthly_charges" =>
        /\ Len(last.charges) = Cardinality(Emitting(last.month))
        /\ \A lk \in Emitting(last.month) :
              Cardinality({i \in 1..Len(last.charges) :
                              last.charges[i] = ExpectedCharge(lk[1], lk[2], last.month)})
                 = Cardinality({x \in Emitting(last.month) :
                                  ExpectedCharge(x[1], x[2], last.month)
                                     = ExpectedCharge(lk[1], lk[2], last.month)})

(* February 2024 with a lease begun on the 15th and due on the 31st: its   *)
(* charges are due on the 29th; another lease in force has no rent, and a  *)
(* third is not yet in force                                               *)
C19_Witness ==
    /\ last.op = "build_monthly_charges" /\ last.month = <<2024, 2>>
    /\ \E i \in 1..Len(last.charges) :
          last.charges[i].due_date = <<2024, 2, 29>> /\ last.charges[i].kind = "rent"
    /\ \E l \in leases : l.rent_cents = 0 /\ InForce(l, last.month)
    /\ \E l \in leases : ~InForce(l, last.month)

----------------------------------------------------------------------------
(* C18: the rows of the aging report *)

Reported == last.op = "rent_aging"

DaysOverdue(c) == toordinal(last.args.asof) - toordinal(c.due_date)

InBucket(c, b) ==
    CASE b = "0-30"  -> DaysOverdue(c) <= 30
      [] b = "31-60" -> DaysOverdue(c) > 30 /\ DaysOverdue(c) <= 60
      [] b = "61-90" -> DaysOverdue(c) > 60 /\ DaysOverdue(c) <= 90
      [] OTHER       -> DaysOverdue(c) > 90

RECURSIVE SumOpen(_)
SumOpen(charges) ==
    IF charges = <<>> THEN 0 ELSE Head(charges).open_cents + SumOpen(Tail(charges))

(* The open amounts of the tenant's charges that remain open after the     *)
(* allocation and fall in bucket b                                         *)
OpenInBucket(tid, b) ==
    SumOpen(SelectSeq(TenantResult(tid, last.args),
                      LAMBDA c : c.open_cents > 0 /\ InBucket(c, b)))

RowsOf(tid) == {i \in 1..Len(last.rows) : last.rows[i].tenant_id = tid}

(* C18: after rent-aging, for each tenant every bucket total of its row is *)
(* the sum of the open amounts of its charges that remain open after the   *)
(* allocation and fall in that bucket, the row's total is the sum of the   *)
(* four buckets, and the tenant has a row exactly when at least one of its *)
(* buckets is non-zero.                                                    *)
C18_AgingRows ==
    Reported =>
        \A tid \in tenants :
            /\ Cardinality(RowsOf(tid)) <= 1
            /\ (RowsOf(tid) # {}) <=> (\E b \in BucketNames : OpenInBucket(tid, b) # 0)
            /\ \A i \in RowsOf(tid) :
                  /\ \A b \in BucketNames : last.rows[i].buckets[b] = OpenInBucket(tid, b)
                  /\ last.rows[i].total_open =
                        last.rows[i].buckets["0-30"] + last.rows[i].buckets["31-60"]
                          + last.rows[i].buckets["61-90"] + last.rows[i].buckets["90+"]

(* A report with a row that fills three buckets, next to a tenant whose    *)
(* only charge is a credit and who gets no row                             *)
C18_Witness ==
    /\ Reported
    /\ \E i \in 1..Len(last.rows) :
          /\ last.rows[i].buckets["0-30"] > 0
          /\ last.rows[i].buckets["31-60"] > 0
          /\ last.rows[i].buckets["61-90"] > 0
    /\ \E tid \in tenants :
          /\ TenantCharges(tid, last.args) # <<>>
          /\ RowsOf(tid) = {}

----------------------------------------------------------------------------
(* Order and conservation of the payments *)

(* C21: the allocator walks the payments in chronological order: the list  *)
(* it walks is the payments up to the key date in ascending date, payments *)
(* of one date in their original order.                                    *)
C21_PaymentsChronological ==
    Allocating =>
        /\ \A i, j \in 1..Len(fifo.payments) :
              i < j => DateLeq(fifo.payments[i].date, fifo.payments[j].date)
        /\ fifo.payments =
              SortByDate(SelectSeq(fifo.paid, LAMBDA p : DateLeq(p.date, fifo.asof)))

Reorderings(seq) ==
    {[i \in 1..Len(seq) |-> seq[f[i]]] :
        f \in {g \in [1..Len(seq) -> 1..Len(seq)] :
                  \A i, j \in 1..Len(seq) : i # j => g[i] # g[j]}}

(* C25: the returned open amounts are the same for every permutation of    *)
(* the list of payments.                                                   *)
C25_PaymentOrderIrrelevant ==
    fifo.pc = "done" =>
        \A q \in Reorderings(fifo.paid) :
            apply_payments_fifo(fifo.input, q, fifo.asof, fifo.priority) = fifo.charges

(* Two payments of different amounts were allocated and left a charge      *)
(* partly paid                                                             *)
C25_Witness ==
    /\ fifo.pc = "done" /\ Len(fifo.payments) = 2
    /\ fifo.payments[1].amount_cents # fifo.payments[2].amount_cents
    /\ \E i \in 1..Len(fifo.charges) :
          0 < fifo.charges[i].open_cents /\ fifo.charges[i].open_cents < fifo.charges[i].amount_cents

OpenSum(cs) == SumSeq([i \in 1..Len(cs) |-> cs[i].open_cents])

(* The open amounts of the eligible charges when the function is entered *)
EligibleOpen == OpenSum(SelectSeq(fifo.input, LAMBDA c : DateLeq(c.due_date, fifo.asof) /\ c.open_cents > 0))

(* The positive payments dated on or before the key date *)
PaidIn ==
    LET ps == SelectSeq(fifo.paid, LAMBDA p : DateLeq(p.date, fifo.asof) /\ p.amount_cents > 0)
    IN  SumSeq([i \in 1..Len(ps) |-> ps[i].amount_cents])

(* C26: at the return the open amounts of the eligible charges have gone   *)
(* down by min(payments up to the key date, open amounts at entry), and    *)
(* no open amount is negative.                                             *)
C26_Conservation ==
    fifo.pc = "done" =>
        /\ EligibleOpen - OpenSum(fifo.charges) =
              (IF PaidIn <= EligibleOpen THEN PaidIn ELSE EligibleOpen)
        /\ \A i \in 1..Len(fifo.charges) : fifo.charges[i].open_cents >= 0

(* More was paid than was open: every charge is closed and the surplus is  *)
(* gone                                                                    *)
C26_Witness ==
    /\ fifo.pc = "done" /\ EligibleOpen > 0 /\ PaidIn > EligibleOpen
    /\ OpenSum(fifo.charges) = 0

----------------------------------------------------------------------------
(* Successive leases of one tenant *)

ChargesFor(tid) == SelectSeq(last.charges, LAMBDA c : c.tenant_id = tid)

(* C23: a lease row with a later start date supersedes an open-ended       *)
(* earlier one of the same tenant: for a month on or after the later start *)
(* the tenant's charges come from the later lease only, at most one rent   *)
(* and one operating-cost charge; and there is one row per (tenant, start  *)
(* date).                                                                  *)
C23_LaterLeaseSupersedes ==
    /\ \A l1, l2 \in leases :
          (l1.tenant_id = l2.tenant_id /\ l1.since_date = l2.since_date) => l1 = l2
    /\ last.op = "build_monthly_charges" =>
          \A l1, l2 \in leases :
              (/\ l1.tenant_id = l2.tenant_id
               /\ DateLt(l1.since_date, l2.since_date)
               /\ IsNull(l1.until_date)
               /\ ~DateLt(<<last.month[1], last.month[2], 31>>, l2.since_date)) =>
                 LET cs == ChargesFor(l2.tenant_id)
                 IN  /\ \A i \in 1..Len(cs) : cs[i] = ExpectedCharge(l2, cs[i].kind, last.month)
                     /\ \A i, j \in 1..Len(cs) : cs[i].kind = cs[j].kind => i = j

----------------------------------------------------------------------------
(* Rounding of the percent parts *)

(* C22: on success the split of every percent part is the integer nearest  *)
(* to amount * percent / 100, a half going to the even neighbour for every *)
(* amount, and the remainder split is the amount less the percent splits.  *)
C22_PercentHalfToEven ==
    [][(TestStep /\ last'.ok /\ KindCount(StepParts, "fixed") = 0
          /\ KindCount(StepParts, "remainder") = 1) =>
         LET n == Len(PercentParts(StepParts))
         IN  /\ \A i \in 1..n :
                   Inserted[i].amount_cents =
                      NearestCents(StepAmount, Val(PercentParts(StepParts)[i].value_percent))
             /\ Inserted[n + 1].amount_cents =
                   StepAmount - SumSeq([i \in 1..n |-> Inserted[i].amount_cents])]_vars

----------------------------------------------------------------------------
(* Credits in the aging report *)

Debits(cs) == SelectSeq(cs, LAMBDA c : c.amount_cents > 0)

Credits(cs) == SelectSeq(cs, LAMBDA c : c.amount_cents < 0)

(* C24: a manual charge of negative amount takes no part in the aging      *)
(* computation: it is not among the charges after allocation, the          *)
(* allocation is the one of the tenant's other charges alone, and no       *)
(* bucket and no total of a row is negative.                               *)
C24_CreditsLeftOut ==
    Reported =>
        /\ \A tid \in tenants :
              LET cs == TenantCharges(tid, last.args)
              IN  /\ Credits(TenantResult(tid, last.args)) = <<>>
                  /\ cs # <<>> =>
                        TenantResult(tid, last.args) =
                           apply_payments_fifo(Debits(cs), TenantPayments(tid, last.args),
                                               last.args.asof, last.args.priority)
        /\ \A i \in 1..Len(last.rows) :
              /\ last.rows[i].total_open >= 0
              /\ \A b \in BucketNames : last.rows[i].buckets[b] >= 0

(* A tenant with a credit, payments and a row with an open total *)
C24_Witness ==
    /\ Reported
    /\ \E i \in 1..Len(last.rows) :
          /\ last.rows[i].total_open > 0
          /\ Credits(TenantCharges(last.rows[i].tenant_id, last.args)) # <<>>
          /\ TenantPayments(last.rows[i].tenant_id, last.args) # <<>>

----------------------------------------------------------------------------
(* Rules with one remainder part, and what a success leaves untouched *)

(* C27: a matching rule with at least one part, exactly one remainder      *)
(* part, a value on every fixed and percent part and percent parts of at   *)
(* most 100 % in sum is applied with success, whatever its fixed amounts.  *)
C27_RemainderAlwaysBalances ==
    [][(StepMatches /\ StepParts # <<>> /\ KindCount(StepParts, "remainder") = 1
          /\ AllValued(StepParts) /\ PercentTotal(StepParts) <= 10000) =>
         last'.ok]_vars

(* A fixed part of 2 on a transaction of 1: the remainder split is -1 *)
C27_Witness ==
    /\ last.op = "test_rule" /\ last.ok
    /\ TestedAmount = 1
    /\ KindCount(TestedParts, "remainder") = 1
    /\ ExpectedFixedSum(TestedParts, TestedAmount) > TestedAmount
    /\ \E i \in 1..Len(splits) : splits[i].amount_cents < 0 /\ splits[i].note.rule = last.rule_id

Kept == Len(splits') >= Len(splits) /\ SubSeq(splits', 1, Len(splits)) = splits

(* The rule whose attempt on bank row b succeeded in the run *)
WinnerOn(b) ==
    LET i == CHOOSE k \in 1..Len(AttemptsOn(b)) : AttemptsOn(b)[k].ok
    IN  AttemptsOn(b)[i].rule_id

(* C28: a successful rule application by test-rule or apply-rules leaves   *)
(* every stored split as it was and appends, to the target transaction     *)
(* only, one split per part of the rule; the target's split sum grows by   *)
(* the transaction amount.                                                 *)
C28_SuccessOnlyAppends ==
    [][/\ (TestStep /\ last'.ok) =>
             /\ Kept
             /\ Len(Inserted) = Len(StepParts)
             /\ \A i \in 1..Len(Inserted) : Inserted[i].bank_id = last'.bank_id
             /\ split_sum(splits', last'.bank_id) = split_sum(splits, last'.bank_id) + StepAmount
       /\ BatchStep =>
             /\ Kept
             /\ \A i \in 1..Len(Inserted) : Succeeded(Inserted[i].bank_id)
             /\ \A b \in 1..Len(bank) :
                   Succeeded(b) =>
                      /\ Len(AddedTo(b)) = Len(PartsOf(WinnerOn(b)))
                      /\ split_sum(splits', b) = split_sum(splits, b) + bank[b].amount_cents]_vars

(* A success on the second transaction, with a manual split of the first   *)
(* transaction stored before it                                            *)
C28_Witness ==
    /\ last.op \in {"test_rule", "apply_rules"}
    /\ Len(splits) >= 2
    /\ splits[1].bank_id = 1 /\ splits[1].note.rule = 0
    /\ splits[Len(splits)].bank_id = 2 /\ splits[Len(splits)].note.rule # 0

====
